---- MODULE Spec2Model ----
(***************************************************************************)
(* Anaplan Actions Lookup (src/app.py): the session's credential slot with *)
(* its 600 second validity window, the Basic auth header, the sequential   *)
(* fetch of the four action categories, the normalisation of each decoded  *)
(* response body, and the flattening of the stored collection into the     *)
(* combined export rows.                                                   *)
(*                                                                         *)
(* Representation.  Text typed by the operator (email, password) is a      *)
(* sequence of byte values, so that the Base64 encoding is computed.       *)
(* A Python value that may be None is a sequence of length 0 (None) or 1   *)
(* (the value).  A Python dict whose order matters is a sequence of        *)
(* <<key, value>> pairs in insertion order.  A raw record is a function    *)
(* from those of the field names "name", "id" it carries.                  *)
(***************************************************************************)
EXTENDS Integers, Sequences, FiniteSets, TLC

VARIABLES
    now,           \* the value time.time() returns
    credentials,   \* st.session_state["credentials"]
    auth_header,   \* st.session_state.auth_header
    workspace_id,  \* st.session_state.workspace_id
    model_id,      \* st.session_state.model_id
    action_data,   \* st.session_state.action_data
    pc,            \* "idle" between script runs, "fetching" inside get_all_action_types
    partial,       \* values of the dict literal of get_all_action_types evaluated so far
    requests,      \* the GET requests issued during the latest script run
    outcome,       \* the message the latest script run displayed
    lastSave,      \* history: the operator's most recent save, its time, and
                   \* the state of the slot it overwrote
    fetchedWith    \* history: the workspace id and model id of the run that
                   \* stored action_data

vars == <<now, credentials, auth_header, workspace_id, model_id, action_data,
          pc, partial, requests, outcome, lastSave, fetchedWith>>

None == <<>>
Some(v) == <<v>>

----------------------------------------------------------------------------
(* Constants of the program and bounds of the model *)

CREDENTIAL_EXPIRY_SECONDS == 600

\* the clock is read at script runs; the model lets them happen at second 0
\* and at every second from one before the end of the expiry window up to MaxNow
MaxNow == 600
Instants == {0} \cup ((CREDENTIAL_EXPIRY_SECONDS - 1) .. MaxNow)

\* text the operator can type: "" and "a", "" and "x"
Emails == {<<>>, <<97>>}
Passwords == {<<>>, <<120>>}
WorkspaceIds == {"", "W1"}
ModelIds == {"", "M1"}

Category == <<"Processes", "Imports", "Exports", "Other Actions">>
ItemType == <<"processes", "imports", "exports", "actions">>

\* raw records the remote API can return; E1 carries no id, RecNone neither
\* name nor id
RecP1 == [name |-> "P1", id |-> "p1"]
RecE1 == [name |-> "E1"]
RecNone == [field \in {} |-> ""]

\* a decoded JSON value: its type, its number when it is a number, its
\* elements when it is a list, its key/value pairs in order when it is a mapping
JNull == [t |-> "null", n |-> 0, list |-> <<>>, fields |-> <<>>]
JNumber(n) == [t |-> "number", n |-> n, list |-> <<>>, fields |-> <<>>]
JList(s) == [t |-> "list", n |-> 0, list |-> s, fields |-> <<>>]
JDict(s) == [t |-> "dict", n |-> 0, list |-> <<>>, fields |-> s]

\* decoded response bodies: null, 42, lists, and mappings with no, one and
\* two list-valued fields
Bodies ==
    { JNull,
      JNumber(42),
      JList(<<RecP1>>),
      JDict(<< <<"meta", JDict(<<>>)>> >>),
      JDict(<< <<"items", JList(<<RecP1>>)>>, <<"meta", JDict(<<>>)>> >>),
      JDict(<< <<"meta", JDict(<<>>)>>, <<"items", JList(<<RecE1, RecNone>>)>>,
               <<"more", JList(<<RecP1>>)>> >>) }

----------------------------------------------------------------------------
(* AUTH: get_basic_auth_header *)

B64Char(i) ==
    IF i < 26 THEN 65 + i
    ELSE IF i < 52 THEN 97 + (i - 26)
    ELSE IF i < 62 THEN 48 + (i - 52)
    ELSE IF i = 62 THEN 43 ELSE 47

B64Pad == 61

RECURSIVE b64encode(_)
b64encode(s) ==
    IF Len(s) = 0 THEN <<>>
    ELSE IF Len(s) = 1 THEN
        << B64Char(s[1] \div 4), B64Char((s[1] % 4) * 16), B64Pad, B64Pad >>
    ELSE IF Len(s) = 2 THEN
        << B64Char(s[1] \div 4), B64Char((s[1] % 4) * 16 + s[2] \div 16),
           B64Char((s[2] % 16) * 4), B64Pad >>
    ELSE
        << B64Char(s[1] \div 4), B64Char((s[1] % 4) * 16 + s[2] \div 16),
           B64Char((s[2] % 16) * 4 + s[3] \div 64), B64Char(s[3] % 64) >>
        \o b64encode(SubSeq(s, 4, Len(s)))

\* "Basic " followed by the Base64 text of "username:password"
get_basic_auth_header(username, password) ==
    <<66, 97, 115, 105, 99, 32>> \o b64encode(username \o <<58>> \o password)

----------------------------------------------------------------------------
(* CREDENTIAL HANDLING *)

\* save_credentials that keeps the timestamp of the credential it replaces
save_credentials_keeps_timestamp(email, password) ==
    [email |-> email, password |-> password,
     timestamp |-> IF credentials # None THEN credentials[1].timestamp ELSE now]

\* the dict save_credentials stores
save_credentials(email, password) ==
    [email |-> email, password |-> password, timestamp |-> now]

\* get_credentials with <= for <
get_credentials_inclusive ==
    IF credentials # None
       /\ (now - credentials[1].timestamp) <= CREDENTIAL_EXPIRY_SECONDS
    THEN <<Some(credentials[1].email), Some(credentials[1].password)>>
    ELSE <<None, None>>

\* (email, password) of the stored credential inside the window, else (None, None)
get_credentials ==
    IF credentials # None
       /\ (now - credentials[1].timestamp) < CREDENTIAL_EXPIRY_SECONDS
    THEN <<Some(credentials[1].email), Some(credentials[1].password)>>
    ELSE <<None, None>>

----------------------------------------------------------------------------
(* FETCH *)

\* the loop of fetch_items without the isinstance test: the first value
first_value(items) ==
    IF items = <<>> THEN <<>> ELSE Head(items)[2].list

\* the loop of fetch_items over data.items(): the first value that is a list
RECURSIVE first_list(_)
first_list(items) ==
    IF items = <<>> THEN <<>>
    ELSE IF Head(items)[2].t = "list" THEN Head(items)[2].list
    ELSE first_list(Tail(items))

\* what fetch_items returns for the decoded body
fetch_items(body) ==
    IF body.t = "dict" THEN first_list(body.fields)
    ELSE IF body.t = "list" THEN body.list
    ELSE <<>>

\* the GET fetch_items issues for the k-th category; ok records whether the
\* call went on to return (FALSE: requests.get, raise_for_status or json raised)
request(k, ok) ==
    [workspace |-> workspace_id, model |-> model_id, resource |-> ItemType[k],
     Authorization |-> auth_header[1], ok |-> ok]

\* get_all_action_types that leaves out the categories without items
get_all_action_types_skips_empty(values) ==
    SelectSeq([k \in 1..4 |-> <<Category[k], values[k]>>], LAMBDA kv : kv[2] # <<>>)

\* the dict literal of get_all_action_types, from its four values
get_all_action_types(values) ==
    [k \in 1..4 |-> <<Category[k], values[k]>>]

\* all(...) for any(...)
all_values(d) == \A k \in 1..Len(d) : d[k][2] # <<>>

\* any(action_data.values()): a list is true when it is not empty
any_values(d) == \E k \in 1..Len(d) : d[k][2] # <<>>

----------------------------------------------------------------------------
(* DISPLAY: the per-category tables and the combined rows *)

\* dict.get(key): None, shown as "None", for a key that is missing
get_without_default(i, key, default) == IF key \in DOMAIN i THEN i[key] ELSE "None"

\* dict.get(key, default)
get(i, key, default) == IF key \in DOMAIN i THEN i[key] ELSE default

\* pd.DataFrame of the Name/ID dicts of the items: one column per key
DataFrame(items) ==
    [Name |-> [k \in 1..Len(items) |-> get(items[k], "name", "")],
     ID   |-> [k \in 1..Len(items) |-> get(items[k], "id", "")]]

\* df.to_dict(orient="records"): one dict per row, in row order
to_dict_records(df) ==
    [k \in 1..Len(df.Name) |-> [Name |-> df.Name[k], ID |-> df.ID[k]]]

\* the rows one category adds to combined_data, each with its Type
category_rows(category, items) ==
    IF items # <<>>
    THEN LET rows == to_dict_records(DataFrame(items))
         IN  [k \in 1..Len(rows) |->
                [Name |-> rows[k].Name, ID |-> rows[k].ID, Type |-> category]]
    ELSE <<>>

\* the loop over action_data.items() that puts later categories first
RECURSIVE combined_rows_reversed(_)
combined_rows_reversed(d) ==
    IF d = <<>> THEN <<>>
    ELSE combined_rows_reversed(Tail(d)) \o category_rows(Head(d)[1], Head(d)[2])

\* the loop over action_data.items()
RECURSIVE combined_rows(_)
combined_rows(d) ==
    IF d = <<>> THEN <<>>
    ELSE category_rows(Head(d)[1], Head(d)[2]) \o combined_rows(Tail(d))

\* combined_data at the end of a script run
combined_data ==
    IF action_data # None /\ action_data[1] # <<>>
    THEN combined_rows(action_data[1])
    ELSE <<>>

----------------------------------------------------------------------------
(* The state after the first script run *)

Init ==
    /\ now = 0
    /\ credentials = None
    /\ auth_header = None
    /\ workspace_id = ""
    /\ model_id = ""
    /\ action_data = None
    /\ pc = "idle"
    /\ partial = <<>>
    /\ requests = <<>>
    /\ outcome = "None"
    /\ lastSave = None
    /\ fetchedWith = None

\* time passes; no step inside a fetch reads the clock, so the clock is
\* advanced between script runs only
Tick ==
    /\ pc = "idle"
    /\ \E t \in Instants : t > now /\ now' = t
    /\ UNCHANGED <<credentials, auth_header, workspace_id, model_id, action_data,
                   pc, partial, requests, outcome, lastSave, fetchedWith>>

\* a script run in which get_credentials removes a credential it finds expired
Rerun_sweeps_expired ==
    /\ pc = "idle"
    /\ outcome' = "None"
    /\ requests' = <<>>
    /\ credentials' =
         IF credentials # None
            /\ (now - credentials[1].timestamp) >= CREDENTIAL_EXPIRY_SECONDS
         THEN None ELSE credentials
    /\ UNCHANGED <<now, auth_header, workspace_id, model_id,
                   action_data, pc, partial, lastSave, fetchedWith>>

\* a script run in which no button was pressed
Rerun ==
    /\ pc = "idle"
    /\ outcome' = "None"
    /\ requests' = <<>>
    /\ UNCHANGED <<now, credentials, auth_header, workspace_id, model_id,
                   action_data, pc, partial, lastSave, fetchedWith>>

\* the state of the credential slot: Empty, Valid or Expired
VaultState ==
    IF credentials = None THEN "Empty"
    ELSE IF now - credentials[1].timestamp < CREDENTIAL_EXPIRY_SECONDS THEN "Valid"
    ELSE "Expired"

\* a script run in which "Save Credentials" was pressed
SaveCredentials(email, password) ==
    /\ pc = "idle"
    /\ credentials' = Some(save_credentials(email, password))
    /\ lastSave' = Some([identity |-> email, secret |-> password, T |-> now,
                         replaced |-> VaultState])
    /\ outcome' = "Saved"
    /\ requests' = <<>>
    /\ UNCHANGED <<now, auth_header, workspace_id, model_id, action_data, pc, partial,
                   fetchedWith>>

\* "Fetch Actions" storing the identifiers it was given before it tests them
FetchActions_stores_before_validation(email, password, workspace, model) ==
    /\ pc = "idle"
    /\ requests' = <<>>
    /\ workspace_id' = workspace
    /\ model_id' = model
    /\ IF email = <<>> \/ password = <<>>
       THEN /\ outcome' = "CredentialsMissing"
            /\ UNCHANGED <<auth_header, pc>>
       ELSE IF workspace = "" \/ model = ""
       THEN /\ outcome' = "IdentifiersMissing"
            /\ UNCHANGED <<auth_header, pc>>
       ELSE /\ auth_header' = Some(get_basic_auth_header(email, password))
            /\ pc' = "fetching"
            /\ outcome' = "None"
    /\ UNCHANGED <<now, credentials, action_data, partial, lastSave, fetchedWith>>

\* "Fetch Actions" leaving the stored identifiers for the run that succeeds
FetchActions_keeps_identifiers(email, password, workspace, model) ==
    /\ pc = "idle"
    /\ requests' = <<>>
    /\ IF email = <<>> \/ password = <<>>
       THEN /\ outcome' = "CredentialsMissing"
            /\ UNCHANGED <<auth_header, workspace_id, model_id, pc>>
       ELSE IF workspace = "" \/ model = ""
       THEN /\ outcome' = "IdentifiersMissing"
            /\ UNCHANGED <<auth_header, workspace_id, model_id, pc>>
       ELSE /\ auth_header' = Some(get_basic_auth_header(email, password))
            /\ UNCHANGED <<workspace_id, model_id>>
            /\ pc' = "fetching"
            /\ outcome' = "None"
    /\ UNCHANGED <<now, credentials, action_data, partial, lastSave, fetchedWith>>

\* "Fetch Actions" renewing the timestamp of the stored credential it uses
FetchActions_renews_credentials(email, password, workspace, model) ==
    /\ pc = "idle"
    /\ requests' = <<>>
    /\ IF email = <<>> \/ password = <<>>
       THEN /\ outcome' = "CredentialsMissing"
            /\ UNCHANGED <<auth_header, workspace_id, model_id, pc, credentials>>
       ELSE IF workspace = "" \/ model = ""
       THEN /\ outcome' = "IdentifiersMissing"
            /\ UNCHANGED <<auth_header, workspace_id, model_id, pc, credentials>>
       ELSE /\ auth_header' = Some(get_basic_auth_header(email, password))
            /\ workspace_id' = workspace
            /\ model_id' = model
            /\ pc' = "fetching"
            /\ outcome' = "None"
            /\ credentials' =
                 IF credentials # None
                 THEN Some([credentials[1] EXCEPT !.timestamp = now])
                 ELSE credentials
    /\ UNCHANGED <<now, action_data, partial, lastSave, fetchedWith>>

\* a script run in which "Fetch Actions" was pressed, up to the first request
FetchActions(email, password, workspace, model) ==
    /\ pc = "idle"
    /\ requests' = <<>>
    /\ IF email = <<>> \/ password = <<>>
       THEN /\ outcome' = "CredentialsMissing"
            /\ UNCHANGED <<auth_header, workspace_id, model_id, pc>>
       ELSE IF workspace = "" \/ model = ""
       THEN /\ outcome' = "IdentifiersMissing"
            /\ UNCHANGED <<auth_header, workspace_id, model_id, pc>>
       ELSE /\ auth_header' = Some(get_basic_auth_header(email, password))
            /\ workspace_id' = workspace
            /\ model_id' = model
            /\ pc' = "fetching"
            /\ outcome' = "None"
    /\ UNCHANGED <<now, credentials, action_data, partial, lastSave, fetchedWith>>

\* a returning fetch_items call after which the stored dict is updated rather
\* than assigned: a category fetched empty keeps the items it had
FetchItemsReturn_merges(body) ==
    /\ pc = "fetching"
    /\ requests' = Append(requests, request(Len(partial) + 1, TRUE))
    /\ LET values == Append(partial, fetch_items(body))
           merged == [k \in 1..4 |->
                        IF values[k] = <<>> /\ action_data # None
                        THEN action_data[1][k][2] ELSE values[k]]
       IN  IF Len(values) < 4
           THEN /\ partial' = values
                /\ UNCHANGED <<action_data, pc, outcome, fetchedWith>>
           ELSE /\ partial' = <<>>
                /\ fetchedWith' = Some(<<workspace_id, model_id>>)
                /\ action_data' = Some(get_all_action_types(merged))
                /\ outcome' = IF ~ any_values(get_all_action_types(values))
                              THEN "NoActionsFound" ELSE "Loaded"
                /\ pc' = "idle"
    /\ UNCHANGED <<now, credentials, auth_header, workspace_id, model_id, lastSave>>

\* the next fetch_items call returns; after the fourth the dict is stored
FetchItemsReturn(body) ==
    /\ pc = "fetching"
    /\ requests' = Append(requests, request(Len(partial) + 1, TRUE))
    /\ LET values == Append(partial, fetch_items(body))
       IN  IF Len(values) < 4
           THEN /\ partial' = values
                /\ UNCHANGED <<action_data, pc, outcome, fetchedWith>>
           ELSE /\ partial' = <<>>
                /\ fetchedWith' = Some(<<workspace_id, model_id>>)
                /\ action_data' = Some(get_all_action_types(values))
                /\ outcome' = IF ~ any_values(get_all_action_types(values))
                              THEN "NoActionsFound" ELSE "Loaded"
                /\ pc' = "idle"
    /\ UNCHANGED <<now, credentials, auth_header, workspace_id, model_id, lastSave>>

\* a raising fetch_items call whose exception is caught after the values
\* evaluated so far were stored
FetchItemsRaise_stores_partial ==
    /\ pc = "fetching"
    /\ requests' = Append(requests, request(Len(partial) + 1, FALSE))
    /\ partial' = <<>>
    /\ action_data' = Some([k \in 1..Len(partial) |-> <<Category[k], partial[k]>>])
    /\ outcome' = "ConnectionError"
    /\ pc' = "idle"
    /\ UNCHANGED <<now, credentials, auth_header, workspace_id, model_id, lastSave,
                   fetchedWith>>

\* a raising fetch_items call taken as an empty category, the fetch going on
FetchItemsRaise_continues ==
    /\ pc = "fetching"
    /\ requests' = Append(requests, request(Len(partial) + 1, FALSE))
    /\ LET values == Append(partial, <<>>)
       IN  IF Len(values) < 4
           THEN /\ partial' = values
                /\ UNCHANGED <<action_data, pc, outcome, fetchedWith>>
           ELSE /\ partial' = <<>>
                /\ fetchedWith' = Some(<<workspace_id, model_id>>)
                /\ action_data' = Some(get_all_action_types(values))
                /\ outcome' = IF ~ any_values(get_all_action_types(values))
                              THEN "NoActionsFound" ELSE "Loaded"
                /\ pc' = "idle"
    /\ UNCHANGED <<now, credentials, auth_header, workspace_id, model_id, lastSave>>

\* the next fetch_items call raises (requests.get, raise_for_status, json)
FetchItemsRaise ==
    /\ pc = "fetching"
    /\ requests' = Append(requests, request(Len(partial) + 1, FALSE))
    /\ partial' = <<>>
    /\ outcome' = "ConnectionError"
    /\ pc' = "idle"
    /\ UNCHANGED <<now, credentials, auth_header, workspace_id, model_id,
                   action_data, lastSave, fetchedWith>>

Next ==
    \/ Tick
    \/ Rerun
    \/ \E email \in Emails, password \in Passwords : SaveCredentials(email, password)
    \/ \E email \in Emails, password \in Passwords,
          workspace \in WorkspaceIds, model \in ModelIds :
            FetchActions(email, password, workspace, model)
    \/ \E body \in Bodies : FetchItemsReturn(body)
    \/ FetchItemsRaise

Spec == Init /\ [][Next]_vars

\* the same session with a second workspace the operator can name
MoreWorkspaceIds == WorkspaceIds \cup {"W2"}

NextIds ==
    \/ Tick
    \/ Rerun
    \/ \E email \in Emails, password \in Passwords : SaveCredentials(email, password)
    \/ \E email \in Emails, password \in Passwords,
          workspace \in MoreWorkspaceIds, model \in ModelIds :
            FetchActions(email, password, workspace, model)
    \/ \E body \in Bodies : FetchItemsReturn(body)
    \/ FetchItemsRaise

SpecIds == Init /\ [][NextIds]_vars

----------------------------------------------------------------------------
(* Properties *)

NoCredentials == <<None, None>>

\* C1: with (identity, secret) saved at time T and no later save, a query at
\* time now returns exactly (identity, secret) when now - T < 600 and
\* (None, None) when now - T >= 600, the boundary 600 included.
Thm_C1 ==
    lastSave # None =>
        IF now - lastSave[1].T < 600
        THEN get_credentials = <<Some(lastSave[1].identity), Some(lastSave[1].secret)>>
        ELSE get_credentials = NoCredentials

\* a query exactly 600 seconds after the save returns (None, None)
Witness_C1 ==
    /\ lastSave # None
    /\ now - lastSave[1].T = 600
    /\ get_credentials = NoCredentials

\* C2: the slot holds at most one credential, the one of the most recent
\* save with its timestamp that save's time, and a query never returns
\* anything but that save's identity and secret.
Thm_C2 ==
    /\ Len(credentials) <= 1
    /\ lastSave = None <=> credentials = None
    /\ lastSave # None =>
         /\ credentials[1] = [email |-> lastSave[1].identity,
                              password |-> lastSave[1].secret,
                              timestamp |-> lastSave[1].T]
         /\ get_credentials \in
              {NoCredentials, <<Some(lastSave[1].identity), Some(lastSave[1].secret)>>}

\* a save that overwrote an expired credential is in the slot and is what a
\* query returns
Witness_C2 ==
    /\ lastSave # None
    /\ lastSave[1].replaced = "Expired"
    /\ credentials[1].timestamp = lastSave[1].T
    /\ get_credentials = <<Some(lastSave[1].identity), Some(lastSave[1].secret)>>

\* C3: a fetch requested while get_credentials is (None, None), or while the
\* workspace id or the model id is empty, issues no request: a step that
\* enters get_all_action_types is taken only with a credential available
\* and both identifiers non-empty.
Cex_C3 ==
    [][(pc = "idle" /\ pc' = "fetching") =>
         /\ get_credentials # NoCredentials
         /\ workspace_id' # ""
         /\ model_id' # ""]_vars

\* C4: a raising category fetch leaves action_data as it was before the
\* attempt (no step of the attempt up to and including the raise changes
\* it), keeps none of the values fetched so far, and is reported as a
\* connection error.
Thm_C4 ==
    [][/\ pc' = "fetching" => action_data' = action_data
       /\ FetchItemsRaise =>
            /\ action_data' = action_data
            /\ partial' = <<>>
            /\ pc' = "idle"
            /\ outcome' = "ConnectionError"
            /\ outcome' # "NoActionsFound"]_vars

\* the third category raised while a collection with items from an earlier
\* run is stored
Witness_C4 ==
    /\ outcome = "ConnectionError"
    /\ Len(requests) = 3
    /\ action_data # None
    /\ \E k \in 1..4 : action_data[1][k][2] # <<>>

\* C5: whenever a token is stored, an unexpired credential is stored and the
\* token is the encoding of its identity and secret.
Cex_C5 ==
    auth_header # None =>
        /\ get_credentials # NoCredentials
        /\ auth_header[1] =
             get_basic_auth_header(credentials[1].email, credentials[1].password)

\* the first-sequence rule, stated on positions: the value at the least
\* position holding a list
FirstSequenceRule(body) ==
    IF body.t = "dict"
    THEN LET lists == {i \in 1..Len(body.fields) : body.fields[i][2].t = "list"}
         IN  IF lists = {} THEN <<>>
             ELSE body.fields[CHOOSE i \in lists : \A j \in lists : i <= j][2].list
    ELSE IF body.t = "list" THEN body.list
    ELSE <<>>

\* the value the latest fetch_items call returned
LastReturned ==
    IF pc = "fetching" THEN partial[Len(partial)] ELSE action_data[1][4][2]

\* C6: for every decoded body, what the fetch_items call returns is the first
\* list among a mapping's values in key order (empty if there is none), the
\* body itself for a list, and the empty list for any other shape.
Thm_C6 ==
    [][pc = "fetching" =>
         \A body \in Bodies :
            FetchItemsReturn(body) => LastReturned' = FirstSequenceRule(body)]_vars

\* the call returned the two records that only the mapping with a leading
\* non-list value and two list values yields: its first list, not its second
Witness_C6 ==
    /\ pc = "fetching"
    /\ partial # <<>>
    /\ LastReturned = <<RecE1, RecNone>>
    /\ \A body \in Bodies :
         FirstSequenceRule(body) = LastReturned =>
            /\ body.t = "dict"
            /\ body.fields[1][2].t # "list"
            /\ body.fields[3][2].t = "list"
            /\ body.fields[3][2].list # LastReturned

\* C7: a stored collection has exactly the keys Processes, Imports, Exports,
\* Other Actions, in that order, each with a sequence.
Thm_C7 ==
    action_data # None =>
        /\ [k \in 1..Len(action_data[1]) |-> action_data[1][k][1]] = Category
        /\ \A k \in 1..Len(action_data[1]) :
             DOMAIN action_data[1][k][2] = 1..Len(action_data[1][k][2])

\* a stored collection with an empty and a non-empty category
Witness_C7 ==
    /\ action_data # None
    /\ \E j, k \in 1..4 : action_data[1][j][2] = <<>> /\ action_data[1][k][2] # <<>>

\* the number of rows of the categories before the k-th
RECURSIVE Offset(_, _)
Offset(d, k) == IF k = 1 THEN 0 ELSE Offset(d, k - 1) + Len(d[k - 1][2])

\* C8: the combined rows are one row per item, the k-th category's rows
\* after those of all earlier categories and in the order of its sequence,
\* each tagged with its category; their number is the sum of the lengths.
Thm_C8 ==
    action_data # None =>
        LET d == action_data[1]
            rows == combined_data
        IN  /\ Len(rows) = Offset(d, 5)
            /\ \A k \in 1..4 : \A i \in 1..Len(d[k][2]) :
                 rows[Offset(d, k) + i] =
                    [Name |-> IF "name" \in DOMAIN d[k][2][i] THEN d[k][2][i].name ELSE "",
                     ID   |-> IF "id" \in DOMAIN d[k][2][i] THEN d[k][2][i].id ELSE "",
                     Type |-> Category[k]]

\* two items in one category and items in a later one
Witness_C8 ==
    /\ action_data # None
    /\ \E j, k \in 1..4 :
         /\ j < k
         /\ Len(action_data[1][j][2]) = 2
         /\ Len(action_data[1][k][2]) = 1
    /\ Len(combined_data) >= 3

\* C9: a completed fetch is reported as "no actions found" exactly when all
\* four sequences are empty.
Thm_C9 ==
    outcome \in {"NoActionsFound", "Loaded"} =>
        /\ action_data # None
        /\ outcome = "NoActionsFound" <=>
             \A k \in 1..4 : Len(action_data[1][k][2]) = 0

\* a single item in a single category: reported as loaded
Witness_C9 ==
    /\ outcome = "Loaded"
    /\ Offset(action_data[1], 5) = 1

\* C10: the requests of one run are those for processes, imports, exports,
\* actions in this order, each at most once; every request before the last
\* one returned; a raised request is the last of its run and ends it with a
\* connection error.
Thm_C10 ==
    /\ Len(requests) <= 4
    /\ \A k \in 1..Len(requests) : requests[k].resource = ItemType[k]
    /\ \A k \in 1..Len(requests) : k < Len(requests) => requests[k].ok
    /\ pc = "fetching" =>
         /\ Len(requests) = Len(partial)
         /\ \A k \in 1..Len(requests) : requests[k].ok
    /\ (\E k \in 1..Len(requests) : ~ requests[k].ok) =>
         pc = "idle" /\ outcome = "ConnectionError"
    /\ (pc = "idle" /\ requests # <<>> /\ requests[Len(requests)].ok) =>
         Len(requests) = 4

\* the second request raised after the first returned
Witness_C10 ==
    /\ Len(requests) = 2
    /\ requests[1].ok
    /\ ~ requests[2].ok
    /\ outcome = "ConnectionError"

\* C11: a query is a read: a script run that only queries, and the passing of
\* time, leave the slot as it is; 600 seconds or more after the latest save
\* the credential of that save is still in the slot and the query returns
\* (None, None), exactly as it does for the empty slot.
Thm_C11 ==
    [][/\ (Rerun \/ Tick) => credentials' = credentials
       /\ (lastSave' # None /\ now' - lastSave'[1].T >= 600) =>
            /\ credentials' = Some([email |-> lastSave'[1].identity,
                                    password |-> lastSave'[1].secret,
                                    timestamp |-> lastSave'[1].T])
            /\ get_credentials' = NoCredentials
       /\ credentials' = None => get_credentials' = NoCredentials]_vars

\* a script run that only queried, made with an expired credential in the
\* slot: the credential is still there and the query returns (None, None)
Witness_C11 ==
    /\ pc = "idle"
    /\ outcome = "None"
    /\ credentials # None
    /\ now - credentials[1].timestamp >= 600
    /\ credentials[1].email # <<>>
    /\ get_credentials = NoCredentials

\* C12: the step that completes a fetch stores exactly the four sequences of
\* this run, the three fetched before and the one just returned, whatever the
\* collection stored before held; a category fetched empty is stored empty.
Thm_C12 ==
    [][(pc = "fetching" /\ Len(partial) = 3) =>
         \A body \in Bodies :
            FetchItemsReturn(body) =>
               /\ Len(action_data') = 1
               /\ Len(action_data'[1]) = 4
               /\ \A k \in 1..3 : action_data'[1][k] = <<Category[k], partial[k]>>
               /\ action_data'[1][4] = <<Category[4], FirstSequenceRule(body)>>]_vars

\* a completed fetch that found nothing: every category is stored empty
Witness_C12 ==
    /\ pc = "idle"
    /\ outcome = "NoActionsFound"
    /\ Len(requests) = 4
    /\ action_data # None
    /\ \A k \in 1..4 : action_data[1][k][2] = <<>>

\* C13: the table of every category has one row per raw record, and the
\* row's Name and ID are the record's name and id where it carries them and
\* the empty string where it does not, a record carrying neither included.
Thm_C13 ==
    action_data # None =>
        \A k \in 1..Len(action_data[1]) :
            LET items == action_data[1][k][2]
                df == DataFrame(items)
            IN  /\ Len(df.Name) = Len(items)
                /\ Len(df.ID) = Len(items)
                /\ \A i \in 1..Len(items) :
                     /\ "name" \in DOMAIN items[i] => df.Name[i] = items[i].name
                     /\ "name" \notin DOMAIN items[i] => df.Name[i] = ""
                     /\ "id" \in DOMAIN items[i] => df.ID[i] = items[i].id
                     /\ "id" \notin DOMAIN items[i] => df.ID[i] = ""

\* a stored category holds a record with neither field next to one with a
\* name only, and its table has a row of two empty strings
Witness_C13 ==
    /\ action_data # None
    /\ \E k \in 1..4 :
         LET items == action_data[1][k][2]
         IN  /\ Len(items) = 2
             /\ DOMAIN items[1] = {"name"}
             /\ DOMAIN items[2] = {}
             /\ DataFrame(items).Name[2] = ""
             /\ DataFrame(items).ID[2] = ""

\* C14: a fetch request rejected for an empty email or password, or for an
\* empty workspace id or model id, changes none of the credential slot, the
\* stored auth_header, the stored workspace_id and model_id, and action_data.
Thm_C14 ==
    [][outcome' \in {"CredentialsMissing", "IdentifiersMissing"} =>
         /\ credentials' = credentials
         /\ auth_header' = auth_header
         /\ workspace_id' = workspace_id
         /\ model_id' = model_id
         /\ action_data' = action_data
         /\ pc' = "idle"
         /\ requests' = <<>>]_vars

\* a request rejected in a session that holds a credential, a token, both
\* identifiers and a collection with items
Witness_C14 ==
    /\ outcome \in {"CredentialsMissing", "IdentifiersMissing"}
    /\ credentials # None
    /\ auth_header # None
    /\ workspace_id # ""
    /\ model_id # ""
    /\ action_data # None
    /\ \E k \in 1..4 : action_data[1][k][2] # <<>>

\* C15: a fetch request that passes validation stores its token, workspace id
\* and model id before any request is issued; no later step of the attempt,
\* a raise included, changes them, and a raise leaves action_data as it was:
\* the stored identifiers then need not be those action_data was fetched with.
Thm_C15 ==
    [][/\ (pc = "idle" /\ pc' = "fetching") =>
            /\ requests' = <<>>
            /\ action_data' = action_data
            /\ \A email \in Emails, password \in Passwords,
                  workspace \in MoreWorkspaceIds, model \in ModelIds :
                    FetchActions(email, password, workspace, model) =>
                       /\ auth_header' = Some(get_basic_auth_header(email, password))
                       /\ workspace_id' = workspace
                       /\ model_id' = model
       /\ pc = "fetching" =>
            /\ auth_header' = auth_header
            /\ workspace_id' = workspace_id
            /\ model_id' = model_id
            /\ requests'[Len(requests')].workspace = workspace_id
            /\ requests'[Len(requests')].model = model_id
            /\ requests'[Len(requests')].Authorization = auth_header[1]
            /\ ~ requests'[Len(requests')].ok =>
                  action_data' = action_data /\ fetchedWith' = fetchedWith]_vars

\* after a raise, the stored workspace id is that of the failed attempt and
\* not the one the stored collection was fetched with
Witness_C15 ==
    /\ pc = "idle"
    /\ outcome = "ConnectionError"
    /\ action_data # None
    /\ fetchedWith # None
    /\ fetchedWith[1] # <<workspace_id, model_id>>
    /\ requests[1].workspace = workspace_id
    /\ requests[1].workspace # fetchedWith[1][1]

\* C16: the credential slot changes in a save and in no other step; every
\* step of a fetch attempt, accepted, rejected or raising, leaves the stored
\* credential, its timestamp and what a query returns as they were.
Thm_C16 ==
    [][/\ credentials' # credentials =>
            \E email \in Emails, password \in Passwords :
               SaveCredentials(email, password)
       /\ (pc = "fetching" \/ pc' = "fetching"
             \/ outcome' \in {"CredentialsMissing", "IdentifiersMissing"}) =>
            /\ credentials' = credentials
            /\ lastSave' = lastSave
            /\ now' = now => get_credentials' = get_credentials]_vars

\* a fetch was completed 599 seconds or more after the save: the credential
\* still carries the time of its save
Witness_C16 ==
    /\ pc = "idle"
    /\ outcome \in {"Loaded", "NoActionsFound", "ConnectionError"}
    /\ Len(requests) >= 1
    /\ auth_header # None
    /\ credentials # None
    /\ lastSave # None
    /\ credentials[1].timestamp = lastSave[1].T
    /\ now - credentials[1].timestamp >= 599

====
